---------------------------- MODULE Spec2Model ----------------------------
(***************************************************************************)
(* Model of the staged ETL pipeline of src/orchestration/pipeline_runner.py *)
(* (PipelineRunner) together with the parts of the validator, the masker,  *)
(* the artifact store (GCSUploader) and the warehouse loader               *)
(* (BigQueryLoader) that the orchestrator drives.                          *)
(*                                                                         *)
(* One behaviour is the life of one PipelineRunner object: Init is the     *)
(* state after __init__, and run_full_pipeline is executed step by step,   *)
(* one action per call it makes to a collaborator.  The object may be run  *)
(* again after a run has ended (MaxRuns).                                  *)
(*                                                                         *)
(* Environment.  Everything outside the repository is a nondeterministic   *)
(* choice: what the sources deliver, whether a store / warehouse call      *)
(* raises, how the wall clock advances, and what the attribute lookups the *)
(* code performs on names the repository itself never defines find at run  *)
(* time (Settings.GCS_BUCKET_RAW, Settings.GCS_BUCKET_PROCESSED,           *)
(* DataValidator.get_validation_summary).  With the repository as it is    *)
(* those lookups fail ("absent" / has_summary = FALSE); the other values   *)
(* describe an embedding program that has assigned them.                   *)
(*                                                                         *)
(* The validator and the masker are also specified on their own, called    *)
(* directly on an argument of the caller's choice (SpecValidator,          *)
(* SpecMaskEmail, SpecMaskPhone, SpecMasker).                              *)
(***************************************************************************)
EXTENDS Integers, Sequences, FiniteSets, TLC

\* ------------------------------------------------------------------ bounds
\* highest value of the wall clock (seconds) the model lets time reach
MaxClock == 1
\* number of calls of run_full_pipeline on one PipelineRunner
MaxRuns == 1

\* ------------------------------------------------------- program constants
\* num_records requested from every source
NumRecords == 50

\* a dict key that was never assigned / Python None
NoValue == "None"

\* insertion order of the dataframes dict built by _extract_data
SourceNames == <<"faker", "api", "csv">>

\* --------------------------------------------------------------- schema
\* EmployeeModel.model_fields, in declaration order
ModelFields ==
  << [name |-> "employee_id",        is_required |-> TRUE,  default |-> "Undefined"],
     [name |-> "first_name",         is_required |-> TRUE,  default |-> "Undefined"],
     [name |-> "last_name",          is_required |-> TRUE,  default |-> "Undefined"],
     [name |-> "email",              is_required |-> TRUE,  default |-> "Undefined"],
     [name |-> "department",         is_required |-> TRUE,  default |-> "Undefined"],
     [name |-> "position",           is_required |-> TRUE,  default |-> "Undefined"],
     [name |-> "hire_date",          is_required |-> TRUE,  default |-> "Undefined"],
     [name |-> "data_source",        is_required |-> TRUE,  default |-> "Undefined"],
     [name |-> "phone",              is_required |-> FALSE, default |-> NoValue],
     [name |-> "ssn",                is_required |-> FALSE, default |-> NoValue],
     [name |-> "salary",             is_required |-> FALSE, default |-> NoValue],
     [name |-> "street_address",     is_required |-> FALSE, default |-> NoValue],
     [name |-> "city",               is_required |-> FALSE, default |-> NoValue],
     [name |-> "state",              is_required |-> FALSE, default |-> NoValue],
     [name |-> "zip_code",           is_required |-> FALSE, default |-> NoValue],
     [name |-> "manager_id",         is_required |-> FALSE, default |-> NoValue],
     [name |-> "performance_rating", is_required |-> FALSE, default |-> NoValue] >>

ModelFieldNames == { ModelFields[k].name : k \in 1..Len(ModelFields) }

\* the columns every source builds its records with
SourceColumns == ModelFieldNames

\* DataValidator.__init__: the names the column check asks for
required_fields ==
  { ModelFields[k].name : k \in { j \in 1..Len(ModelFields) :
        ~ModelFields[j].is_required \/ ModelFields[j].default = NoValue } }

\* fields EmployeeModel declares without a default (pydantic: "Field required")
ModelRequired ==
  { ModelFields[k].name : k \in { j \in 1..Len(ModelFields) : ModelFields[j].is_required } }

\* GCSUploader.upload_data: the identity columns it cleans and asserts on
UploadRequired == {"employee_id", "first_name", "last_name", "email"}

\* --------------------------------------------------------------- batches
\* A record (row) carries the fields whose values decide a stage's outcome:
\*   employee_id : 0 is a null / blank id, k > 0 the k-th well-formed id
\*   email       : "ok" matches the e-mail pattern, "bad" is non-empty and
\*                 does not match, "null" is None / blank, "tok" is a masked
\*                 address TOKEN_XXXXXXXX@domain
\*   hire_date   : "past" is a date string not after the current time,
\*                 "future" a date string after it, "bad" a string
\*                 pd.to_datetime cannot parse
\* every other field of the record holds a value its field spec accepts.
\* A frame is its set of columns and its rows in order.  The rows are kept
\* run-length encoded: a run stands for count consecutive records that carry
\* the consecutive employee_ids first_id, first_id + 1, ... (all null when
\* first_id = 0) and the same e-mail class.
RunHired(first_id, count, email, hire_date) ==
  [first_id |-> first_id, count |-> count, email |-> email,
   hire_date |-> hire_date]

\* records hired in the past, as every source generates them
Run(first_id, count, email) == RunHired(first_id, count, email, "past")

EmptyFrame == [cols |-> {}, rows |-> <<>>]

\* runs with no record in them are not kept
Runs(rs) == LET Real(r) == r.count > 0 IN SelectSeq(rs, Real)

GoodBatch(n) == [cols |-> SourceColumns, rows |-> Runs(<< Run(1, n, "ok") >>)]

\* the batch of n records whose record at position p has the e-mail e
BatchWithEmail(n, p, e) ==
  [cols |-> SourceColumns,
   rows |-> Runs(<< Run(1, p - 1, "ok"), Run(p, 1, e), Run(p + 1, n - p, "ok") >>)]

\* the batch of n records whose last record repeats the first employee_id
BatchWithDuplicate(n) ==
  [cols |-> SourceColumns,
   rows |-> Runs(<< Run(1, n - 1, "ok"), Run(1, 1, "ok") >>)]

\* len(df)
RECURSIVE NumRows(_)
NumRows(rs) == IF rs = <<>> THEN 0 ELSE Head(rs).count + NumRows(Tail(rs))

\* df.empty
IsEmpty(df) == NumRows(df.rows) = 0 \/ df.cols = {}

\* ------------------------------------------------------------- validator
\* one validation issue; row is the 1-based position for a per-record issue,
\* causes the <<field, error>> pairs behind it, count the duplicate count
Issue(kind, row, causes, count) ==
  [kind |-> kind, row |-> row, causes |-> causes, count |-> count]

\* EmployeeModel.model_validate(record.to_dict()): the errors pydantic raises
\* for a record with the given employee_id, e-mail and hire_date of a frame
\* with the columns cols.  validate_hire_date (lines 40-48) only parses the
\* value: it compares it with no clock.
RowCauses(cols, employee_id, email, hire_date) ==
  { <<f, "field_required">> : f \in ModelRequired \ cols }
  \cup { <<c, "extra_forbidden">> : c \in cols \ ModelFieldNames }
  \cup (IF "employee_id" \in cols /\ employee_id = 0
          THEN {<<"employee_id", "string_type">>} ELSE {})
  \cup (IF "email" \in cols /\ email = "null"
          THEN {<<"email", "string_type">>} ELSE {})
  \cup (IF "email" \in cols /\ email = "bad"
          THEN {<<"email", "invalid_email_format">>} ELSE {})
  \cup (IF "hire_date" \in cols /\ hire_date = "bad"
          THEN {<<"hire_date", "invalid_date">>} ELSE {})

\* the employee_ids of one run
RunIds(r) == IF r.first_id = 0 THEN {0} ELSE r.first_id..(r.first_id + r.count - 1)

\* df['employee_id'].duplicated().sum(): the rows repeating an earlier id,
\* that is the rows less the distinct ids
Duplicated(rs) ==
  NumRows(rs) - Cardinality(UNION { RunIds(rs[j]) : j \in 1..Len(rs) })

\* the per-record loop of validate_dataframe, lines 76-80, in batch order;
\* done is the number of records before the first run of rs.  Every record
\* of a run has the same causes, and each gets its own issue.
RECURSIVE RowIssues(_, _, _)
RowIssues(cols, rs, done) ==
  IF rs = <<>> THEN <<>>
  ELSE LET r      == Head(rs)
           causes == RowCauses(cols, r.first_id, r.email, r.hire_date)
       IN (IF causes = {} THEN <<>>
           ELSE [j \in 1..r.count |-> Issue("row", done + j, causes, 0)])
          \o RowIssues(cols, Tail(rs), done + r.count)

\* DataValidator.validate_dataframe: <<is_valid, validation_issues>>
validate_dataframe(df) ==
  IF IsEmpty(df) THEN << FALSE, << Issue("empty", 0, {}, 0) >> >>
  ELSE LET missing_cols == required_fields \ df.cols IN
    IF missing_cols # {}
    THEN << FALSE,
            << Issue("missing_columns", 0,
                     { <<c, "missing">> : c \in missing_cols }, 0) >> >>
    ELSE LET perRow == RowIssues(df.cols, df.rows, 0)
             dups   == Duplicated(df.rows)
             issues == perRow \o
                       (IF "employee_id" \in df.cols /\ dups > 0
                          THEN << Issue("duplicates", 0, {}, dups) >> ELSE <<>>)
         IN << issues = <<>>, issues >>

\* ---------------------------------------------------------------- masker
\* DataMasker._mask_email on the e-mail classes
mask_email(e) ==
  CASE e = "null" -> "null"
    [] e = "ok"   -> "tok"
    [] e = "tok"  -> "tok"
    [] OTHER      -> e

\* DataMasker.mask_sensitive_data
mask_sensitive_data(df) ==
  IF IsEmpty(df) THEN df
  ELSE [cols |-> df.cols \cup {"masked_at", "is_masked"},
        rows |-> [k \in 1..Len(df.rows) |->
                    [df.rows[k] EXCEPT !.email = mask_email(df.rows[k].email)]]]

\* --------------------------------------------------------- artifact store
\* GCSUploader._generate_filename: data_type/source_timestamp.parquet, the
\* timestamp being the wall clock in whole seconds
generate_filename(source_name, data_type, t) ==
  [data_type |-> data_type, source_name |-> source_name, timestamp |-> t]

\* upload_data, lines 59-63: rows with a blank identity field are dropped
upload_clean(df) ==
  [cols |-> df.cols,
   rows |-> LET Keep(r) == /\ ("employee_id" \in df.cols => r.first_id # 0)
                           /\ ("email" \in df.cols => r.email # "null")
            IN SelectSeq(df.rows, Keep)]

\* upload_data, line 66: df[required_fields] raises KeyError when a column
\* of the list is not in the frame
upload_key_error(df) == ~(UploadRequired \subseteq df.cols)

\* --------------------------------------------------------------- settings
\* Settings.validate_settings: the names it looks up on the class
required_settings ==
  << "GOOGLE_APPLICATION_CREDENTIALS", "GCS_BUCKET_RAW", "GCS_BUCKET_PROCESSED",
     "BIGQUERY_PROJECT_ID", "BIGQUERY_DATASET_ID", "BIGQUERY_TABLE_ID" >>

\* the names the class body of Settings assigns (from the process environment)
ClassAttributes ==
  { "GOOGLE_APPLICATION_CREDENTIALS", "GCS_BUCKET", "BIGQUERY_PROJECT_ID",
    "BIGQUERY_DATASET_ID", "BIGQUERY_TABLE_ID" }

RequiredNames == { required_settings[k] : k \in 1..Len(required_settings) }

\* what a lookup of each name finds: "set" a non-empty value, "unset" None or
\* "", "absent" no such attribute.  A name of the class body is never absent.
SettingsConfigs ==
  { c \in [RequiredNames -> {"set", "unset", "absent"}] :
      \A n \in RequiredNames \cap ClassAttributes : c[n] # "absent" }

\* the configuration of the repository as it is, every variable exported
RepositorySettings ==
  [n \in RequiredNames |-> IF n \in ClassAttributes THEN "set" ELSE "absent"]

\* validate_settings: "ok", or the exception it raises.  The comprehension
\* calls getattr on every name before missing is looked at.
validate_settings(c) ==
  IF \E n \in RequiredNames : c[n] = "absent" THEN "AttributeError"
  ELSE IF \E n \in RequiredNames : c[n] = "unset" THEN "ValueError"
  ELSE "ok"

\* ------------------------------------------------------- validation summary
NoSummary == [present |-> FALSE, total_errors |-> 0]

RECURSIVE CountIssues(_)
CountIssues(log) ==
  IF log = <<>> THEN 0 ELSE Len(Head(log).issues) + CountIssues(Tail(log))

\* get_validation_summary of a validator that provides one: the errors
\* accumulated over the validate_dataframe calls of the run
get_validation_summary(log) ==
  [present |-> TRUE, total_errors |-> CountIssues(log)]

\* ------------------------------------------------------------------ state
\* 'start_time': None, 'end_time': None
NoTime == -1

VARIABLES
  pc,               \* position inside run_full_pipeline
  run,              \* calls of run_full_pipeline so far
  now,              \* last reading of the wall clock, whole seconds
  pipeline_stats,   \* self.pipeline_stats
  dataframes,       \* _extract_data's dict, as <<[source, df]>> in insertion order
  extract_failed,   \* sources whose extractor hit an exception in this run
  raw_files,        \* _upload_raw_data's dict, as <<[source, filename]>>
  processed_files,  \* _process_data's dict, as <<[source, filename]>>
  idx,              \* position of the running for-loop
  df_cur,           \* df_raw / df_masked of the source being processed
  bucket,           \* the artifact store: filename -> stored frame
  jobs,             \* load jobs the warehouse completed, in order
  validation_log,   \* <<[source, valid, issues]>> of this run's validate calls
  has_summary,      \* does self.data_validator provide get_validation_summary
  settings,         \* what a lookup of each required setting finds
  result,           \* what run_full_pipeline handed to its caller
  events,           \* history: the stages of this run, in the order they happened
  stats_at_start    \* history: pipeline_stats when this run was started

vars == << pc, run, now, pipeline_stats, dataframes, extract_failed, raw_files,
           processed_files, idx, df_cur, bucket, jobs, validation_log,
           has_summary, settings, result, events, stats_at_start >>

NoResult == [kind |-> "none", error |-> NoValue,
             validation_summary |-> NoSummary, bigquery_info |-> NoValue]

\* PipelineRunner.__init__, lines 37-45; keys assigned later start absent
InitStats ==
  [start_time |-> NoTime, end_time |-> NoTime, sources_processed |-> 0,
   total_raw_records |-> 0, total_valid_records |-> 0, total_errors |-> 0,
   files_uploaded |-> <<>>, duration |-> NoTime, error |-> NoValue,
   validation_summary |-> NoSummary]

Init ==
  /\ pc = "idle"
  /\ run = 0
  /\ now = 0
  /\ pipeline_stats = InitStats
  /\ dataframes = <<>>
  /\ extract_failed = {}
  /\ raw_files = <<>>
  /\ processed_files = <<>>
  /\ idx = 0
  /\ df_cur = EmptyFrame
  /\ bucket = <<>>
  /\ jobs = <<>>
  /\ validation_log = <<>>
  /\ has_summary \in BOOLEAN
  /\ settings \in SettingsConfigs
  /\ result = NoResult
  /\ events = <<>>
  /\ stats_at_start = InitStats

Event(stage, source) == [stage |-> stage, source |-> source]

\* datetime.now(): a reading not before the last one
ClockReadings == now..MaxClock

\* faulty variant of Raise: the statistics are started afresh on an error
RaiseDropStats(err) ==
  /\ \E t \in ClockReadings :
       /\ now' = t
       /\ pipeline_stats' = [InitStats EXCEPT !.end_time = t, !.error = err]
  /\ result' = [NoResult EXCEPT !.kind = "raised", !.error = err]
  /\ pc' = "raised"

\* run_full_pipeline, lines 79-83: the except branch
Raise(err) ==
  /\ \E t \in ClockReadings :
       /\ now' = t
       /\ pipeline_stats' = [pipeline_stats EXCEPT !.end_time = t, !.error = err]
  /\ result' = [NoResult EXCEPT !.kind = "raised", !.error = err]
  /\ pc' = "raised"

\* run_full_pipeline, lines 49-51: the call starts; the locals of the
\* method are new, self.pipeline_stats is the dict __init__ built
BeginRun ==
  /\ run' = run + 1
  /\ pc' = "validate_settings"
  /\ \E t \in ClockReadings :
       /\ now' = t
       /\ pipeline_stats' = [pipeline_stats EXCEPT !.start_time = t]
  /\ stats_at_start' = pipeline_stats
  /\ dataframes' = <<>>
  /\ extract_failed' = {}
  /\ raw_files' = <<>>
  /\ processed_files' = <<>>
  /\ idx' = 0
  /\ df_cur' = EmptyFrame
  /\ validation_log' = <<>>
  /\ result' = NoResult
  /\ events' = <<>>
  /\ UNCHANGED << bucket, jobs, has_summary, settings >>

\* a call of run_full_pipeline, the first or one after a run has ended
RunStart ==
  /\ pc \in {"idle", "returned", "raised"}
  /\ run < MaxRuns
  /\ BeginRun

\* run_full_pipeline, line 54
ValidateSettings ==
  /\ pc = "validate_settings"
  /\ IF validate_settings(settings) = "ok"
       THEN /\ pc' = "extract"
            /\ UNCHANGED << now, pipeline_stats, result >>
       ELSE Raise(validate_settings(settings))
  /\ UNCHANGED << run, dataframes, extract_failed, raw_files, processed_files,
                  idx, df_cur, bucket, jobs, validation_log, has_summary, settings,
                  events, stats_at_start >>

\* ---------------------------------------------------------------- sources
\* What an extractor hands back: failed is TRUE when an exception occurred
\* inside it.  api_extractor.py:56-61 and csv_extractor.py:72-74 catch every
\* exception and return an empty DataFrame.
Extracted(failed, df) == [failed |-> failed, df |-> df]

\* FakerDataGenerator.generate_employee_data(50)
FakerOutcomes == { Extracted(FALSE, GoodBatch(NumRecords)) }

\* APIDataExtractor.extract_user_data(50): the remote users, well-formed or
\* with one malformed address, or the request failing
ApiOutcomes ==
  { Extracted(FALSE, GoodBatch(NumRecords)),
    Extracted(FALSE, BatchWithEmail(NumRecords, 7, "bad")),
    Extracted(TRUE, EmptyFrame) }

\* CSVDataExtractor.extract_csv_data(50): a sample of the file, well-formed or
\* with one malformed address, a one-line file whose address is missing, or
\* the read failing
CsvOutcomes ==
  { Extracted(FALSE, GoodBatch(NumRecords)),
    Extracted(FALSE, BatchWithEmail(NumRecords, 3, "bad")),
    Extracted(FALSE, BatchWithEmail(1, 1, "null")),
    Extracted(TRUE, EmptyFrame) }

RECURSIVE SumRows(_)
SumRows(dfs) ==
  IF dfs = <<>> THEN 0 ELSE NumRows(Head(dfs).df.rows) + SumRows(Tail(dfs))

\* _extract_data, lines 85-118
ExtractData ==
  /\ pc = "extract"
  /\ \E f \in FakerOutcomes, a \in ApiOutcomes, c \in CsvOutcomes :
       LET dfs == << [source |-> "faker", df |-> f.df],
                     [source |-> "api",   df |-> a.df],
                     [source |-> "csv",   df |-> c.df] >>
       IN /\ dataframes' = dfs
          /\ extract_failed' = (IF a.failed THEN {"api"} ELSE {})
                               \cup (IF c.failed THEN {"csv"} ELSE {})
          /\ pipeline_stats' =
               [pipeline_stats EXCEPT !.sources_processed = Len(dfs),
                                      !.total_raw_records = SumRows(dfs)]
          /\ events' = events \o << Event("extract", "faker"),
                 Event(IF a.failed THEN "extract_failed" ELSE "extract", "api"),
                 Event(IF c.failed THEN "extract_failed" ELSE "extract", "csv") >>
  /\ pc' = "upload_raw"
  /\ idx' = 1
  /\ UNCHANGED << run, now, raw_files, processed_files, df_cur, bucket, jobs,
                  validation_log, has_summary, settings, result, stats_at_start >>

\* blob.upload_from_string: the object named fn now holds df
Put(fn, df) ==
  [f \in DOMAIN bucket \cup {fn} |-> IF f = fn THEN df ELSE bucket[f]]

\* an entry of pipeline_stats['files_uploaded']: f"{prefix}/{filename}"
FileEntry(prefix, filename) == [prefix |-> prefix, filename |-> filename]

\* one iteration of the loop of _upload_raw_data, lines 127-131, with the
\* upload_data call it makes
UploadRaw ==
  /\ pc = "upload_raw"
  /\ LET source_name == dataframes[idx].source
         df          == dataframes[idx].df
     IN IF upload_key_error(df)
        THEN /\ Raise("KeyError")
             /\ events' = events \o << Event("raw_write_failed", source_name) >>
             /\ UNCHANGED << raw_files, bucket, idx >>
        ELSE \/ \E t \in ClockReadings :
                  LET filename == generate_filename(source_name, "raw", t) IN
                  /\ now' = t
                  /\ bucket' = Put(filename, upload_clean(df))
                  /\ raw_files' = Append(raw_files,
                                     [source |-> source_name, filename |-> filename])
                  /\ pipeline_stats' =
                       [pipeline_stats EXCEPT !.files_uploaded =
                          Append(@, FileEntry("raw", filename))]
                  /\ events' = events \o << Event("raw_write", source_name) >>
                  /\ IF idx < Len(dataframes)
                       THEN idx' = idx + 1 /\ pc' = "upload_raw"
                       ELSE idx' = 1 /\ pc' = "download"
                  /\ UNCHANGED result
             \/ /\ Raise("StorageError")
                /\ events' = events \o << Event("raw_write_failed", source_name) >>
                /\ UNCHANGED << raw_files, bucket, idx >>
  /\ UNCHANGED << run, dataframes, extract_failed, processed_files, df_cur,
                  jobs, validation_log, has_summary, settings, stats_at_start >>

\* faulty variant of NextSource: the loop is left after its first source
NextSourceStop ==
  idx' = idx /\ pc' = "process_summary"

\* _process_data, line 147: the loop moves to the next raw file, or ends
NextSource ==
  IF idx < Len(raw_files)
    THEN idx' = idx + 1 /\ pc' = "download"
    ELSE idx' = idx /\ pc' = "process_summary"

\* faulty variant of ProcessFailure: the exception is swallowed and the loop
\* goes on with the next source
ProcessFailureSkip(err) ==
  /\ NextSource
  /\ UNCHANGED << now, pipeline_stats, result >>

\* _process_data, lines 189-191: an exception inside the loop is logged and
\* raised again
ProcessFailure(err) ==
  /\ Raise(err)
  /\ UNCHANGED idx

\* _process_data, line 151, with download_data
Download ==
  /\ pc = "download"
  /\ LET source_name == raw_files[idx].source
         filename    == raw_files[idx].filename
     IN \/ /\ filename \in DOMAIN bucket
           /\ df_cur' = bucket[filename]
           /\ pc' = "validate"
           /\ events' = events \o << Event("download", source_name) >>
           /\ UNCHANGED << now, pipeline_stats, result, idx >>
        \/ /\ ProcessFailure("StorageError")
           /\ events' = events \o << Event("download_failed", source_name) >>
           /\ UNCHANGED df_cur
  /\ UNCHANGED << run, dataframes, extract_failed, raw_files, processed_files,
                  bucket, jobs, validation_log, has_summary, settings,
                  stats_at_start >>

\* faulty variant of validated_frame: the raw frame goes on whatever the
\* validator said
validated_frame_keep(is_valid, df_raw) == df_raw

\* _process_data, lines 157-165: the frame that goes on to masking is df_raw
\* when validation passed and an empty frame otherwise
validated_frame(is_valid, df_raw) == IF is_valid THEN df_raw ELSE EmptyFrame

\* _process_data, lines 154-165: validate, and skip the source when the
\* validated frame is empty
Validate ==
  /\ pc = "validate"
  /\ LET source_name  == raw_files[idx].source
         res          == validate_dataframe(df_cur)
         df_validated == validated_frame(res[1], df_cur)
     IN /\ validation_log' = Append(validation_log,
               [source |-> source_name, valid |-> res[1], issues |-> res[2]])
        /\ df_cur' = df_validated
        /\ events' = events \o
             << Event(IF res[1] THEN "validate_ok" ELSE "validate_failed", source_name) >>
        /\ IF ~IsEmpty(df_validated)
             THEN pc' = "mask" /\ UNCHANGED idx
             ELSE NextSource
  /\ UNCHANGED << run, now, pipeline_stats, dataframes, extract_failed, raw_files,
                  processed_files, bucket, jobs, has_summary, settings, result,
                  stats_at_start >>

\* _process_data, line 168
Mask ==
  /\ pc = "mask"
  /\ LET source_name == raw_files[idx].source
     IN \/ /\ df_cur' = mask_sensitive_data(df_cur)
           /\ pc' = "upload_processed"
           /\ events' = events \o << Event("mask", source_name) >>
           /\ UNCHANGED << now, pipeline_stats, result, idx >>
        \/ /\ ProcessFailure("MaskingError")
           /\ events' = events \o << Event("mask_failed", source_name) >>
           /\ UNCHANGED df_cur
  /\ UNCHANGED << run, dataframes, extract_failed, raw_files, processed_files,
                  bucket, jobs, validation_log, has_summary, settings,
                  stats_at_start >>

\* _process_data, lines 170-179, with the upload_data call
UploadProcessed ==
  /\ pc = "upload_processed"
  /\ LET source_name == raw_files[idx].source
     IN IF upload_key_error(df_cur)
        THEN /\ ProcessFailure("KeyError")
             /\ events' = events \o << Event("processed_write_failed", source_name) >>
             /\ UNCHANGED << processed_files, bucket >>
        ELSE \/ \E t \in ClockReadings :
                  LET filename == generate_filename(source_name, "processed", t) IN
                  /\ now' = t
                  /\ bucket' = Put(filename, upload_clean(df_cur))
                  /\ processed_files' = Append(processed_files,
                         [source |-> source_name, filename |-> filename])
                  /\ pipeline_stats' =
                       [pipeline_stats EXCEPT
                          !.files_uploaded = Append(@, FileEntry("processed", filename)),
                          !.total_valid_records = @ + NumRows(df_cur.rows)]
                  /\ events' = events \o << Event("processed_write", source_name) >>
                  /\ NextSource
                  /\ UNCHANGED result
             \/ /\ ProcessFailure("StorageError")
                /\ events' = events \o << Event("processed_write_failed", source_name) >>
                /\ UNCHANGED << processed_files, bucket >>
  /\ UNCHANGED << run, dataframes, extract_failed, raw_files, df_cur, jobs,
                  validation_log, has_summary, settings, stats_at_start >>

\* faulty variant of load_items: the loop is handed the raw files
load_items_raw == raw_files

\* _load_to_bigquery, line 198: what the load loop iterates over
load_items == processed_files

\* _process_data, lines 181-187: the error statistics after the loop
ProcessSummary ==
  /\ pc = "process_summary"
  /\ IF has_summary
       THEN /\ pipeline_stats' =
                 [pipeline_stats EXCEPT
                    !.total_errors = get_validation_summary(validation_log).total_errors,
                    !.validation_summary = get_validation_summary(validation_log)]
            /\ IF load_items = <<>> THEN pc' = "finalize" ELSE pc' = "load"
            /\ idx' = 1
            /\ UNCHANGED << now, result >>
       ELSE /\ Raise("AttributeError")
            /\ UNCHANGED idx
  /\ UNCHANGED << run, dataframes, extract_failed, raw_files, processed_files,
                  df_cur, bucket, jobs, validation_log, has_summary, settings, events,
                  stats_at_start >>

\* one iteration of the loop of _load_to_bigquery, lines 198-201, with
\* load_from_gcs_parquet; lines 205-207 raise its exception again
Load ==
  /\ pc = "load"
  /\ LET source_name == load_items[idx].source
         filename    == load_items[idx].filename
     IN \/ /\ jobs' = Append(jobs, [source |-> source_name, filename |-> filename,
                                    run |-> run])
           /\ events' = events \o << Event("load", source_name) >>
           /\ IF idx < Len(load_items)
                THEN idx' = idx + 1 /\ pc' = "load"
                ELSE idx' = idx /\ pc' = "finalize"
           /\ UNCHANGED << now, pipeline_stats, result >>
        \/ /\ Raise("WarehouseError")
           /\ events' = events \o << Event("load_failed", source_name) >>
           /\ UNCHANGED << jobs, idx >>
  /\ UNCHANGED << run, dataframes, extract_failed, raw_files, processed_files,
                  df_cur, bucket, validation_log, has_summary, settings,
                  stats_at_start >>

\* run_full_pipeline, lines 71-74
Finalize ==
  /\ pc = "finalize"
  /\ \E t \in ClockReadings :
       /\ now' = t
       /\ pipeline_stats' =
            [pipeline_stats EXCEPT !.end_time = t,
                                   !.duration = t - pipeline_stats.start_time]
  /\ pc' = "summary"
  /\ UNCHANGED << run, dataframes, extract_failed, raw_files, processed_files,
                  idx, df_cur, bucket, jobs, validation_log, has_summary, settings,
                  result, events, stats_at_start >>

\* faulty variant of table_info_lookup: the exception of get_table_info is
\* not caught
table_info_lookup_raise(info_ok) ==
  [raises |-> ~info_ok, bigquery_info |-> IF info_ok THEN "table_info" ELSE NoValue]

\* _get_pipeline_summary, lines 214-220: the table information, None when
\* get_table_info raised; the exception is logged and not raised again
table_info_lookup(info_ok) ==
  [raises |-> FALSE, bigquery_info |-> IF info_ok THEN "table_info" ELSE NoValue]

\* run_full_pipeline, line 77, with _get_pipeline_summary: the summary holds
\* self.pipeline_stats itself, the validator's summary and the table
\* information
GetPipelineSummary ==
  /\ pc = "summary"
  /\ IF has_summary
       THEN \E info_ok \in BOOLEAN :
              LET r == table_info_lookup(info_ok) IN
              /\ events' = events \o
                   (IF info_ok THEN <<>> ELSE << Event("table_info_failed", "warehouse") >>)
              /\ IF r.raises
                   THEN Raise("WarehouseError")
                   ELSE /\ result' = [kind |-> "summary", error |-> NoValue,
                              validation_summary |-> get_validation_summary(validation_log),
                              bigquery_info |-> r.bigquery_info]
                        /\ pc' = "returned"
                        /\ UNCHANGED << now, pipeline_stats >>
       ELSE /\ Raise("AttributeError")
            /\ UNCHANGED events
  /\ UNCHANGED << run, dataframes, extract_failed, raw_files, processed_files,
                  idx, df_cur, bucket, jobs, validation_log, has_summary, settings,
                  stats_at_start >>

Next ==
  \/ RunStart
  \/ ValidateSettings
  \/ ExtractData
  \/ UploadRaw
  \/ Download
  \/ Validate
  \/ Mask
  \/ UploadProcessed
  \/ ProcessSummary
  \/ Load
  \/ Finalize
  \/ GetPipelineSummary

Spec == Init /\ [][Next]_vars

\* ------------------------------------------------- the orchestrator, run
\* once more.  The same PipelineRunner is called again after its last run of
\* Spec has ended, in an environment in which the settings validate.
RunAgain ==
  /\ pc \in {"returned", "raised"}
  /\ run = MaxRuns
  /\ BeginRun

InitRerun == Init /\ validate_settings(settings) = "ok"

NextRerun == Next \/ RunAgain

SpecRerun == InitRerun /\ [][NextRerun]_vars

\* ------------------------------------------------------------ vocabulary
Sources == { SourceNames[k] : k \in 1..Len(SourceNames) }

SourcesOf(files) == { files[k].source : k \in 1..Len(files) }

HasEvent(stage, s) == \E k \in 1..Len(events) : events[k] = Event(stage, s)

\* the load jobs this run completed
RunJobs == { jobs[k] : k \in { j \in 1..Len(jobs) : jobs[j].run = run } }

\* the entries this run appended to files_uploaded
RunUploads ==
  SubSeq(pipeline_stats.files_uploaded,
         Len(stats_at_start.files_uploaded) + 1, Len(pipeline_stats.files_uploaded))

RunUploadsOf(prefix) ==
  { k \in 1..Len(RunUploads) : RunUploads[k].prefix = prefix }

InvalidSources ==
  { validation_log[k].source :
      k \in { j \in 1..Len(validation_log) : ~validation_log[j].valid } }

ValidSources ==
  { validation_log[k].source :
      k \in { j \in 1..Len(validation_log) : validation_log[j].valid } }

RawFileOf(s) ==
  (CHOOSE k \in { j \in 1..Len(raw_files) : raw_files[j].source = s } : TRUE)

FrameOf(s) ==
  dataframes[CHOOSE k \in 1..Len(dataframes) : dataframes[k].source = s].df

\* the records of the raw artifacts of the sources that have a processed file
RECURSIVE ProcessedRows(_)
ProcessedRows(files) ==
  IF files = <<>> THEN 0
  ELSE NumRows(bucket[raw_files[RawFileOf(Head(files).source)].filename].rows)
       + ProcessedRows(Tail(files))

\* stages in which a collaborator raised
StoreOrMaskFailures ==
  { "raw_write_failed", "download_failed", "mask_failed", "processed_write_failed" }

CollaboratorFailures ==
  StoreOrMaskFailures \cup { "extract_failed", "load_failed", "table_info_failed" }

NoCollaboratorFailure ==
  \A k \in 1..Len(events) : events[k].stage \notin CollaboratorFailures

RunEnded == pc \in {"returned", "raised"}

\* ------------------------------------------------------------------ C1
\* C1: a source whose raw batch failed validation is never masked, gets no
\* processed artifact and no load, adds nothing to total_valid_records (the
\* run's increase is exactly the records of the sources that were processed),
\* and its raw artifact stays in the store, unchanged, to the end of the run.
C1_InvalidSourceSkipped ==
  /\ \A s \in InvalidSources :
       /\ ~HasEvent("mask", s) /\ ~HasEvent("mask_failed", s)
       /\ ~HasEvent("processed_write", s)
       /\ s \notin SourcesOf(processed_files)
       /\ \A k \in RunUploadsOf("processed") : RunUploads[k].filename.source_name # s
       /\ ~HasEvent("load", s) /\ ~HasEvent("load_failed", s)
       /\ \A j \in RunJobs : j.source # s
       /\ raw_files[RawFileOf(s)].filename \in DOMAIN bucket
       /\ bucket[raw_files[RawFileOf(s)].filename] = upload_clean(FrameOf(s))
  /\ (validation_log # <<>> =>
        pipeline_stats.total_valid_records =
          stats_at_start.total_valid_records + ProcessedRows(processed_files))

\* a run that ended with a summary, with one source skipped as invalid and
\* another one loaded
C1_Witness ==
  /\ pc = "returned"
  /\ InvalidSources # {}
  /\ RunJobs # {}

\* ------------------------------------------------------------------ C2
\* C2 (as claimed): when a source fails validation and no collaborator
\* fails, the run ends by returning a summary and every source that
\* validated has been loaded.
C2_Claim ==
  (RunEnded /\ InvalidSources # {} /\ NoCollaboratorFailure)
    => (pc = "returned" /\ \A s \in ValidSources : HasEvent("load", s))

\* ------------------------------------------------------------------ C3
AllSourcesGood ==
  /\ Len(dataframes) = 3
  /\ \A k \in 1..3 : dataframes[k].df = GoodBatch(NumRecords)

\* C3 (as claimed): three sources of 50 schema-valid records each and no
\* failure of the store or the warehouse end in a returned summary with 3
\* sources, 150 raw and 150 valid records, no errors and 6 artifacts.
C3_Claim ==
  (RunEnded /\ AllSourcesGood /\ NoCollaboratorFailure)
    => /\ pc = "returned"
       /\ result.kind = "summary"
       /\ pipeline_stats.sources_processed = 3
       /\ pipeline_stats.total_raw_records = 3 * NumRecords
       /\ pipeline_stats.total_valid_records
            = stats_at_start.total_valid_records + 3 * NumRecords
       /\ pipeline_stats.total_errors = 0
       /\ Cardinality(RunUploadsOf("raw")) = 3
       /\ Cardinality(RunUploadsOf("processed")) = 3

\* ------------------------------------------------------------------ C4
\* the stage that must have succeeded for a source before the given stage
\* of that source may start
Prerequisite(stage) ==
  CASE stage = "raw_write" -> "extract"
    [] stage \in {"download", "download_failed",
                  "validate_ok", "validate_failed"} -> "raw_write"
    [] stage \in {"mask", "mask_failed"} -> "validate_ok"
    [] stage \in {"processed_write", "processed_write_failed"} -> "mask"
    [] stage \in {"load", "load_failed"} -> "processed_write"
    [] OTHER -> "none"

StagesWithPrerequisite(stage) == Prerequisite(stage) # "none"

\* C4: per source the stages happen in the order extract, raw write,
\* validate, mask, processed write, load: the read-back and validation come
\* after the raw write, masking after a validation that passed, the
\* processed write after masking, and a load only after the processed write
\* of that source, for the processed artifact that write stored.
C4_StageOrder ==
  /\ \A k \in 1..Len(events) :
       StagesWithPrerequisite(events[k].stage)
         => \E i \in 1..(k - 1) :
              events[i] = Event(Prerequisite(events[k].stage), events[k].source)
  /\ \A j \in RunJobs :
       /\ j.filename.data_type = "processed"
       /\ j.filename.source_name = j.source
       /\ j.filename \in DOMAIN bucket
       /\ \E k \in 1..Len(processed_files) :
            processed_files[k] = [source |-> j.source, filename |-> j.filename]

\* a run in which some source went through every stage up to its load
C4_Witness ==
  \E s \in Sources :
    /\ HasEvent("validate_ok", s) /\ HasEvent("mask", s)
    /\ HasEvent("processed_write", s) /\ HasEvent("load", s)
    /\ InvalidSources # {}

\* ------------------------------------------------------------------ C5
\* C5 (as claimed): once the extraction of a source has failed, no raw
\* artifact is written and nothing is validated or loaded in that run.
C5_Claim ==
  extract_failed # {}
    => /\ raw_files = <<>>
       /\ RunUploads = <<>>
       /\ validation_log = <<>>
       /\ RunJobs = {}

\* ------------------------------------------------------------------ C6
\* C6: a failure of a store operation (raw write, read-back, processed
\* write) or of masking ends the run: it is the last stage of the run, the
\* error reaches the caller, and the run has issued no load.
C6_StoreOrMaskFailureIsFatal ==
  \A k \in 1..Len(events) :
    events[k].stage \in StoreOrMaskFailures
      => /\ k = Len(events)
         /\ pc = "raised"
         /\ result.kind = "raised"
         /\ result.error \in {"StorageError", "MaskingError", "KeyError"}
         /\ pipeline_stats.error = result.error
         /\ RunJobs = {}

\* masking failed for the second source after the first one was processed
C6_Witness ==
  /\ HasEvent("processed_write", "faker")
  /\ HasEvent("mask_failed", "api")

\* ------------------------------------------------------------------ C7
\* C7 (as claimed): after a failed load the loads of the later sources are
\* still attempted, so that at the end of the run every processed file has
\* had its load attempted.
C7_Claim ==
  (RunEnded /\ \E s \in Sources : HasEvent("load_failed", s))
    => \A k \in 1..Len(processed_files) :
         \/ HasEvent("load", processed_files[k].source)
         \/ HasEvent("load_failed", processed_files[k].source)

\* ------------------------------------------------------------------ C8
\* C8: the step in which an error leaves run_full_pipeline stamps the end
\* time, records the error, leaves every other statistic as it was and
\* hands the error to the caller; a run that raised does nothing more (only
\* a new call leaves that state), so it never returns a summary.
C8_ErrorKeepsStatistics ==
  [][ /\ (pc # "raised" /\ pc' = "raised")
        => /\ result'.kind = "raised"
           /\ result'.error # NoValue
           /\ now' >= now
           /\ pipeline_stats' = [pipeline_stats EXCEPT !.end_time = now',
                                                       !.error = result'.error]
      /\ (pc = "raised" => pc' = "validate_settings")
    ]_vars

\* a run that failed after it had uploaded files and counted valid records
C8_Witness ==
  /\ pc = "raised"
  /\ pipeline_stats.end_time # NoTime
  /\ pipeline_stats.error = "StorageError"
  /\ pipeline_stats.total_valid_records > 0
  /\ Len(RunUploads) >= 4

\* ------------------------------------------------------------------ C9
\* C9: when the table-information lookup fails at the end of a run, the run
\* still returns its summary, with bigquery_info None and the statistics as
\* they were before the lookup; no error is raised or recorded.
C9_LookupFailureTolerated ==
  [][ (pc = "summary" /\ HasEvent("table_info_failed", "warehouse")')
        => /\ pc' = "returned"
           /\ result'.kind = "summary"
           /\ result'.bigquery_info = NoValue
           /\ result'.validation_summary = pipeline_stats.validation_summary
           /\ pipeline_stats' = pipeline_stats
           /\ pipeline_stats'.error = stats_at_start.error
    ]_vars

\* a run that returned its summary although the lookup failed
C9_Witness ==
  /\ pc = "returned"
  /\ HasEvent("table_info_failed", "warehouse")
  /\ result.bigquery_info = NoValue
  /\ RunJobs # {}

\* ------------------------------------------------------------------ C10
AllSourcesProcessed ==
  /\ Len(raw_files) = Len(SourceNames)
  /\ Len(validation_log) = Len(raw_files)
  /\ \A s \in ValidSources : HasEvent("processed_write", s)

\* C10 (as claimed): once every source has been processed, total_errors is
\* the number of validation errors of the run and the validator's summary
\* is in the run state.
C10_Claim ==
  (AllSourcesProcessed /\ pc # "process_summary")
    => /\ pipeline_stats.total_errors = CountIssues(validation_log)
       /\ pipeline_stats.validation_summary.present

\* ------------------------------------------------- the validator, called
\* directly (as src/tests/test_data_validator.py calls it) on a frame of the
\* caller's choice.  df_cur holds the frame, validation_log the result.
\* most records a frame of a direct call holds
MaxRows == 3

\* the records of a direct call: a null or a well-formed employee_id, each
\* class of e-mail, hired before or after the current time
ValidatorRecords ==
  { RunHired(i, 1, e, h) : i \in 0..2, e \in {"ok", "bad", "null"},
                           h \in {"past", "future"} }

\* the column sets of a direct call: every field of the model, the required
\* fields only (the frame of the tests), and each of them without email
ValidatorColumns ==
  { SourceColumns, ModelRequired,
    SourceColumns \ {"email"}, ModelRequired \ {"email"},
    SourceColumns \ {"phone"} }

\* the frames of at most max_rows records
ValidatorFrames(max_rows) ==
  { [cols |-> c, rows |-> rs] :
      c \in ValidatorColumns,
      rs \in UNION { [1..n -> ValidatorRecords] : n \in 0..max_rows } }

\* the state in which a component is called directly, no run of the
\* pipeline having taken place: pc names the call, df_cur holds its argument
DirectCall(position, argument) ==
  /\ pc = position
  /\ df_cur = argument
  /\ run = 0
  /\ now = 0
  /\ pipeline_stats = InitStats
  /\ dataframes = <<>>
  /\ extract_failed = {}
  /\ raw_files = <<>>
  /\ processed_files = <<>>
  /\ idx = 0
  /\ bucket = <<>>
  /\ jobs = <<>>
  /\ validation_log = <<>>
  /\ has_summary = FALSE
  /\ settings = RepositorySettings
  /\ result = NoResult
  /\ events = <<>>
  /\ stats_at_start = InitStats

\* a DataValidator() and a frame
InitValidator == \E df \in ValidatorFrames(MaxRows) : DirectCall("validator", df)

\* is_valid, errors = validator.validate_dataframe(df)
ValidatorCall ==
  /\ pc = "validator"
  /\ LET res == validate_dataframe(df_cur)
     IN validation_log' =
          << [source |-> "direct", valid |-> res[1], issues |-> res[2]] >>
  /\ pc' = "validated"
  /\ UNCHANGED << run, now, pipeline_stats, dataframes, extract_failed, raw_files,
                  processed_files, idx, df_cur, bucket, jobs, has_summary,
                  settings, result, events, stats_at_start >>

NextValidator == ValidatorCall

SpecValidator == InitValidator /\ [][NextValidator]_vars

\* --------------------------------------------- vocabulary of the validator
Validated == pc = "validated"

is_valid == validation_log[1].valid

validation_issues == validation_log[1].issues

\* the record at position p (1-based) of the frame, one record per run
RecordAt(p) == df_cur.rows[p]

Positions == 1..Len(df_cur.rows)

HasRequiredColumns == ModelRequired \subseteq df_cur.cols

\* the record's own fields satisfy their field specs (hire_date apart)
RecordFieldsValid(r) == r.first_id # 0 /\ r.email = "ok"

\* employee_id is unique in the frame
UniqueIds ==
  \A p \in Positions, q \in Positions :
    (p # q /\ RecordAt(p).first_id # 0) => RecordAt(p).first_id # RecordAt(q).first_id

IssuesOfKind(kind) ==
  { k \in 1..Len(validation_issues) : validation_issues[k].kind = kind }

\* every record satisfies every field spec of the schema, hire_date not
\* after the current time included, and employee_id is unique
SchemaValidFrame ==
  /\ ~IsEmpty(df_cur)
  /\ HasRequiredColumns
  /\ df_cur.cols \subseteq ModelFieldNames
  /\ \A p \in Positions :
       RecordFieldsValid(RecordAt(p)) /\ RecordAt(p).hire_date = "past"
  /\ UniqueIds

\* ------------------------------------------------------------------ C11
\* C11 (as claimed): a non-empty frame whose records all satisfy the schema
\* and whose employee_ids are unique validates to (True, []), also when it
\* carries the required columns only.
C11_Claim ==
  (Validated /\ SchemaValidFrame)
    => (is_valid /\ validation_issues = <<>>)

\* ------------------------------------------------------------------ C12
\* C12 (as claimed): a non-empty frame without the column of a required
\* field validates to False with exactly one issue, the missing-columns
\* issue, which names the required columns that are missing; no record is
\* checked.
C12_Claim ==
  (Validated /\ ~IsEmpty(df_cur) /\ ~HasRequiredColumns)
    => /\ ~is_valid
       /\ Len(validation_issues) = 1
       /\ validation_issues[1].kind = "missing_columns"
       /\ { c[1] : c \in validation_issues[1].causes } = ModelRequired \ df_cur.cols

\* ------------------------------------------------------------------ C13
\* the records whose e-mail (a required field) is null
NullEmails == { p \in Positions : RecordAt(p).email = "null" }

\* C13 (as claimed): a frame that passes the column check and holds a null
\* in a required field validates to False and its first issue is a
\* null-value issue citing the field and the number of nulls, not a
\* type-mismatch issue of a record.
C13_Claim ==
  (Validated /\ HasRequiredColumns /\ required_fields \subseteq df_cur.cols
     /\ NullEmails # {})
    => /\ ~is_valid
       /\ validation_issues[1].kind = "null_values"
       /\ <<"email", "null">> \in validation_issues[1].causes
       /\ validation_issues[1].count = Cardinality(NullEmails)

\* ------------------------------------------------------------------ C14
\* C14 (as claimed): a frame of individually valid records in which an
\* employee_id repeats validates to False with exactly one duplicate issue,
\* the last of the list, that states the number of rows repeating an
\* earlier id and names none of them.
C14_Claim ==
  (Validated /\ ~IsEmpty(df_cur) /\ HasRequiredColumns
     /\ df_cur.cols \subseteq ModelFieldNames
     /\ (\A p \in Positions :
           RecordFieldsValid(RecordAt(p)) /\ RecordAt(p).hire_date = "past")
     /\ ~UniqueIds)
    => /\ ~is_valid
       /\ IssuesOfKind("duplicates") = { Len(validation_issues) }
       /\ validation_issues[Len(validation_issues)].count = Duplicated(df_cur.rows)
       /\ validation_issues[Len(validation_issues)].causes = {}

\* ------------------------------------------------------------------ C15
\* the issues of the per-record loop, in the order of the list
RecordIssues ==
  LET OfRecord(i) == i.kind = "row" IN SelectSeq(validation_issues, OfRecord)

\* C15 (as claimed): when every required column is present each record that
\* violates a field spec has its own issue, annotated with its 1-based
\* position and the cause (the invalid-e-mail cause for a malformed
\* address), the issues come in batch order, and a violating record does
\* not stop the check of the records after it.
C15_Claim ==
  (Validated /\ ~IsEmpty(df_cur) /\ HasRequiredColumns)
    => /\ \A p \in Positions :
            ~RecordFieldsValid(RecordAt(p))
              => \E k \in 1..Len(RecordIssues) :
                   /\ RecordIssues[k].row = p
                   /\ (RecordAt(p).email = "bad"
                         => <<"email", "invalid_email_format">> \in RecordIssues[k].causes)
       /\ \A j \in 1..Len(RecordIssues), k \in 1..Len(RecordIssues) :
            j < k => RecordIssues[j].row < RecordIssues[k].row

\* ------------------------------------------------------------------ C16
\* the records hired after the current time
FutureHires == { p \in Positions : RecordAt(p).hire_date = "future" }

\* C16 (as claimed): a frame that passes the column check and holds a
\* record hired after the current time validates to False, with an issue
\* for that record.
C16_Claim ==
  (Validated /\ HasRequiredColumns /\ required_fields \subseteq df_cur.cols
     /\ FutureHires # {})
    => /\ ~is_valid
       /\ \A p \in FutureHires :
            \E k \in 1..Len(RecordIssues) : RecordIssues[k].row = p

\* --------------------------------------------- the masker, value by value
\* A field value is None / NaN (isna) or a string.  A string is kept as an
\* optional leading token followed by characters, so that the f-strings of
\* the masker can be written down: f"TOKEN_{...}" is a token with no
\* characters after it, f"{tokenized_local}@{domain}" a token followed by
\* "@" and the domain.
\* DataMasker.__init__: salt="etl_pipeline_salt"
Salt == "etl_pipeline_salt"

\* hash_value[:8]
TokenHexChars == 8

NoToken == [prefix |-> "", hex_chars |-> 0, upper |-> FALSE,
            salt |-> "", field_name |-> "", of |-> <<>>]

\* f"TOKEN_{hash_value[:8].upper()}" where hash_value is the SHA-256 of
\* f"{salt}_{field_name}_{str(value)}".  The digest is kept as the text it
\* was computed from: equal inputs give equal tokens and, 8 hex characters
\* being taken as enough to tell the inputs of a run apart, different
\* inputs different tokens.
Token(field_name, chars) ==
  [prefix |-> "TOKEN_", hex_chars |-> TokenHexChars, upper |-> TRUE,
   salt |-> Salt, field_name |-> field_name, of |-> chars]

NA == [isna |-> TRUE, token |-> NoToken, str |-> <<>>]

Str(chars) == [isna |-> FALSE, token |-> NoToken, str |-> chars]

\* pd.isna(value) or value == ''
IsBlank(value) == value.isna \/ (value.token = NoToken /\ value.str = <<>>)

\* faulty variant of tokenize_field: the salt is drawn from the clock when
\* the masker is called
tokenize_field_timed(value, field_name) ==
  IF IsBlank(value) THEN value
  ELSE [isna |-> FALSE,
        token |-> [Token(field_name, value.str) EXCEPT !.salt = ToString(now)],
        str |-> <<>>]

\* DataMasker._tokenize_field
tokenize_field(value, field_name) ==
  IF IsBlank(value) THEN value
  ELSE [isna |-> FALSE, token |-> Token(field_name, value.str), str |-> <<>>]

\* position of the first "@" of chars, 0 when there is none
FirstAt(chars) ==
  IF \E k \in 1..Len(chars) : chars[k] = "@"
    THEN CHOOSE k \in 1..Len(chars) :
           chars[k] = "@" /\ \A j \in 1..(k - 1) : chars[j] # "@"
    ELSE 0

\* faulty variant of mask_email_value: the address is split at its last "@"
mask_email_rsplit(email) ==
  IF IsBlank(email) \/ FirstAt(email.str) = 0 THEN email
  ELSE LET at == CHOOSE k \in 1..Len(email.str) :
                   email.str[k] = "@" /\ \A j \in (k + 1)..Len(email.str) : email.str[j] # "@"
           tokenized_local == tokenize_field(Str(SubSeq(email.str, 1, at - 1)), "email")
       IN [isna |-> FALSE, token |-> tokenized_local.token,
           str |-> tokenized_local.str \o <<"@">> \o SubSeq(email.str, at + 1, Len(email.str))]

\* DataMasker._mask_email: email.split('@', 1), the local part tokenized
mask_email_value(email) ==
  IF IsBlank(email) \/ FirstAt(email.str) = 0 THEN email
  ELSE LET at == FirstAt(email.str)
           local_part == SubSeq(email.str, 1, at - 1)
           domain == SubSeq(email.str, at + 1, Len(email.str))
           tokenized_local == tokenize_field(Str(local_part), "email")
       IN [isna |-> FALSE, token |-> tokenized_local.token,
           str |-> tokenized_local.str \o <<"@">> \o domain]

\* what a direct call handed back
Returned(value) == [kind |-> "value", value |-> value]

\* ------------------------------------------------ _mask_email on a value
\* longest address handed to _mask_email
MaxEmailLen == 4

EmailChars == {"a", "b", "@"}

\* None and the strings of at most max_len characters
EmailValues(max_len) ==
  {NA} \cup { Str(chars) : chars \in UNION { [1..n -> EmailChars] : n \in 0..max_len } }

InitMaskEmail == \E email \in EmailValues(MaxEmailLen) : DirectCall("mask_email", email)

\* DataMasker()._mask_email(email)
MaskEmailCall ==
  /\ pc = "mask_email"
  /\ result' = Returned(mask_email_value(df_cur))
  /\ pc' = "masked_email"
  /\ UNCHANGED << run, now, pipeline_stats, dataframes, extract_failed, raw_files,
                  processed_files, idx, df_cur, bucket, jobs, validation_log,
                  has_summary, settings, events, stats_at_start >>

NextMaskEmail == MaskEmailCall

SpecMaskEmail == InitMaskEmail /\ [][NextMaskEmail]_vars

\* ------------------------------------------------------------------ C18
HasAt(value) == ~value.isna /\ \E k \in 1..Len(value.str) : value.str[k] = "@"

\* the text before and after the first "@"
LocalOf(value) == SubSeq(value.str, 1, FirstAt(value.str) - 1)

DomainOf(value) == SubSeq(value.str, FirstAt(value.str) + 1, Len(value.str))

\* value is <token>@<domain> with the token of the local part of email
IsTokenAtDomain(value, email) ==
  /\ ~value.isna
  /\ value.token.prefix = "TOKEN_"
  /\ value.token.hex_chars = 8
  /\ value.token.upper
  /\ value.token.field_name = "email"
  /\ value.token.of = LocalOf(email)
  /\ value.str = <<"@">> \o DomainOf(email)

\* C18 (as claimed): every e-mail value containing "@" is masked to
\* <token>@<domain>; a value without "@", a null and an empty value are
\* returned unchanged.
C18_Claim ==
  pc = "masked_email"
    => IF HasAt(df_cur) THEN IsTokenAtDomain(result.value, df_cur)
       ELSE result.value = df_cur

\* C18, amended: an e-mail value containing "@" whose local part is not
\* empty is masked to <token>@<domain>, the domain being the text after the
\* first "@" and the token TOKEN_ + 8 uppercase hex characters derived from
\* the local part only; a value whose local part is empty, a value without
\* "@", a null and an empty value are returned unchanged.
C18_EmailMasking ==
  pc = "masked_email"
    => IF HasAt(df_cur) /\ LocalOf(df_cur) # <<>>
         THEN IsTokenAtDomain(result.value, df_cur)
         ELSE result.value = df_cur

\* an address with a second "@" in its domain has been masked
C18_Witness ==
  /\ pc = "masked_email"
  /\ df_cur = Str(<<"a", "@", "b", "@">>)
  /\ result.value.token = Token("email", <<"a">>)
  /\ result.value.str = <<"@", "b", "@">>

\* ------------------------------------------------ _mask_phone on a value
\* len(digits) >= 10
MinPhoneDigits == 10

\* digits[-4:]
KeptDigits == 4

Digits == {"0", "1", "2", "3", "4", "5", "6", "7", "8", "9"}

\* re.sub(r'\D', '', str(phone))
DigitsOf(chars) == LET IsDigit(c) == c \in Digits IN SelectSeq(chars, IsDigit)

\* faulty variant of mask_phone: the first digits are kept, not the last
mask_phone_head(phone) ==
  IF IsBlank(phone) THEN phone
  ELSE LET digits == DigitsOf(phone.str) IN
       IF Len(digits) >= MinPhoneDigits
         THEN Str(<<"*", "*", "*", "-", "*", "*", "*", "-">>
                  \o SubSeq(digits, 1, KeptDigits))
         ELSE tokenize_field(phone, "phone")

\* DataMasker._mask_phone
mask_phone(phone) ==
  IF IsBlank(phone) THEN phone
  ELSE LET digits == DigitsOf(phone.str) IN
       IF Len(digits) >= MinPhoneDigits
         THEN Str(<<"*", "*", "*", "-", "*", "*", "*", "-">>
                  \o SubSeq(digits, Len(digits) - KeptDigits + 1, Len(digits)))
         ELSE tokenize_field(phone, "phone")

\* longest phone value handed to _mask_phone
MaxPhoneLen == 11

PhoneChars == {"1", "2", "-"}

\* None and the strings of at most max_len characters
PhoneValues(max_len) ==
  {NA} \cup { Str(chars) : chars \in UNION { [1..n -> PhoneChars] : n \in 0..max_len } }

InitMaskPhone == \E phone \in PhoneValues(MaxPhoneLen) : DirectCall("mask_phone", phone)

\* DataMasker()._mask_phone(phone)
MaskPhoneCall ==
  /\ pc = "mask_phone"
  /\ result' = Returned(mask_phone(df_cur))
  /\ pc' = "masked_phone"
  /\ UNCHANGED << run, now, pipeline_stats, dataframes, extract_failed, raw_files,
                  processed_files, idx, df_cur, bucket, jobs, validation_log,
                  has_summary, settings, events, stats_at_start >>

NextMaskPhone == MaskPhoneCall

SpecMaskPhone == InitMaskPhone /\ [][NextMaskPhone]_vars

\* ------------------------------------------------------------------ C19
\* the digits of the phone value handed in, in order
PhoneDigits == DigitsOf(df_cur.str)

mask_value(field, value) ==
  CASE field = "ssn"            -> tokenize_field(value, "ssn")
    [] field = "salary"         -> tokenize_field(value, "salary")
    [] field = "email"          -> mask_email_value(value)
    [] field = "phone"          -> mask_phone(value)
    [] field = "street_address" -> tokenize_field(value, "address")
    [] OTHER                    -> value

SensitiveFields == {"ssn", "salary", "email", "phone", "street_address"}

\* DataMasker.mask_sensitive_data called at the time t: every column that
\* is a sensitive field is mapped value by value, masked_at and is_masked
\* are added
mask_sensitive_values(df, t) ==
  IF df.rows = <<>> \/ df.cols = {} THEN df
  ELSE [cols |-> df.cols \cup {"masked_at", "is_masked"},
        rows |-> [k \in 1..Len(df.rows) |->
                    [c \in df.cols \cup {"masked_at", "is_masked"} |->
                       IF c = "masked_at" THEN [isna |-> FALSE, at |-> t]
                       ELSE IF c = "is_masked" THEN [isna |-> FALSE, flag |-> TRUE]
                       ELSE mask_value(c, df.rows[k][c])]]]

\* most rows of a batch handed to the masker
MaxBatch == 1

\* calls of mask_sensitive_data on one DataMasker
MaxCalls == 2

MaskerColumns == SensitiveFields \cup {"city"}

\* the unmasked records: with and without an ssn, two addresses of one
\* domain, a phone number of ten digits and a short one
MaskerRecords ==
  { [c \in MaskerColumns |->
       CASE c = "ssn"    -> ssn
         [] c = "email"  -> email
         [] c = "phone"  -> phone
         [] c = "salary" -> Str(<<"5">>)
         [] OTHER        -> Str(<<"a">>)] :
      ssn   \in {NA, Str(<<"1">>)},
      email \in {Str(<<"a", "@", "b">>), Str(<<"b", "@", "b">>)},
      phone \in {Str(<<"1", "1", "1", "1", "1", "1", "1", "1", "1", "2">>),
                 Str(<<"1">>)} }

\* the batches of at most max_rows records
MaskerFrames(max_rows) ==
  { [cols |-> MaskerColumns, rows |-> rs] :
      rs \in UNION { [1..n -> MaskerRecords] : n \in 0..max_rows } }

\* the batches a call may be handed: the batch itself, or the batch among
\* other rows
Contexts(df) ==
  { df,
    [df EXCEPT !.rows = << [c \in MaskerColumns |->
                              IF c = "ssn" THEN NA ELSE Str(<<"b", "@", "b">>)] >> \o @] }

InitMasker == \E df \in MaskerFrames(MaxBatch) : DirectCall("masker", df)

\* DataMasker().mask_sensitive_data(df), at whatever time the call runs;
\* dataframes keeps the frame handed in and the frame returned
MaskerCall ==
  /\ pc = "masker"
  /\ Len(dataframes) < MaxCalls
  /\ \E t \in ClockReadings, df \in Contexts(df_cur) :
       /\ now' = t
       /\ dataframes' = Append(dataframes,
            [source |-> "direct", df |-> df, masked |-> mask_sensitive_values(df, t)])
  /\ UNCHANGED << pc, run, pipeline_stats, extract_failed, raw_files,
                  processed_files, idx, df_cur, bucket, jobs, validation_log,
                  has_summary, settings, result, events, stats_at_start >>

NextMasker == MaskerCall

SpecMasker == InitMasker /\ [][NextMasker]_vars

C20_Claim ==
  \A fn \in DOMAIN bucket :
    /\ NumRows(bucket[fn].rows) > 0
    /\ \A k \in 1..Len(bucket[fn].rows) :
         bucket[fn].rows[k].first_id # 0 /\ bucket[fn].rows[k].email # "null"

\* ------------------------------------------------------------------ C21
\* the identifiers the store has returned to this runner, in write order
ReturnedIdentifiers ==
  [k \in 1..Len(pipeline_stats.files_uploaded) |->
     pipeline_stats.files_uploaded[k].filename]

\* C21 (as claimed): any two successful writes return different identifiers
\* and no write overwrites an earlier artifact, so the store holds one
\* artifact per write, also when two runs write the same stage of the same
\* source.
C21_Claim ==
  /\ \A i, j \in DOMAIN ReturnedIdentifiers :
       i # j => ReturnedIdentifiers[i] # ReturnedIdentifiers[j]
  /\ Cardinality(DOMAIN bucket) = Len(ReturnedIdentifiers)

\* ------------------------------------------------------------------ C22
\* _get_pipeline_summary, line 212: the 'pipeline_stats' entry of the summary
\* is the dict self.pipeline_stats itself, so that what the caller reads in
\* the summary is, at any time, what the runner's statistics hold
summary_pipeline_stats == pipeline_stats

\* C22 (as claimed): once run_full_pipeline has returned its summary, no
\* later step, another call of run_full_pipeline included, changes a field
\* of the statistics in that summary.
C22_Claim ==
  [][result.kind = "summary" => summary_pipeline_stats' = summary_pipeline_stats]_vars

\* ------------------------------------------------------------------ C23
\* the settings the run needs that validate_settings looks up (the bucket is
\* read as GCS_BUCKET, which it does not look up)
NeededSettings == RequiredNames \cap ClassAttributes

\* the run has ended in validate_settings: no extraction, write or load
RaisedInSettings ==
  /\ pc = "raised"
  /\ dataframes = <<>>
  /\ events = <<>>
  /\ RunUploads = <<>>
  /\ RunJobs = {}

\* C23 (as claimed): the settings are validated before any other step; the
\* run raises there, before any extraction, write or load, exactly when one
\* of the needed settings is unset, and goes on to extraction when all of
\* them are set.
C23_Claim ==
  pc \notin {"idle", "validate_settings"}
    => (RaisedInSettings <=> \E n \in NeededSettings : settings[n] = "unset")

\* ------------------------------------------------------------------ C24
ProcessingFailures == {"download_failed", "mask_failed", "processed_write_failed"}

\* source s has finished processing before the k-th stage of the run: it
\* failed validation, or it was validated, masked and written
FinishedBefore(s, k) ==
  \E i \in 1..(k - 1) :
    \/ events[i] = Event("validate_failed", s)
    \/ /\ events[i] = Event("processed_write", s)
       /\ \E v \in 1..(i - 1) : events[v] = Event("validate_ok", s)
       /\ \E m \in 1..(i - 1) : events[m] = Event("mask", s)

\* C24: no load is issued until every source of the run has finished
\* validation and, if valid, masking and its processed write; and when
\* processing fails for a source, the sources processed before it are never
\* loaded although their processed artifacts remain in the store.
C24_StagedAcrossSources ==
  \A k \in 1..Len(events) :
    /\ events[k].stage \in {"load", "load_failed"}
         => \A s \in SourcesOf(raw_files) : FinishedBefore(s, k)
    /\ events[k].stage \in ProcessingFailures
         => /\ RunJobs = {}
            /\ \A j \in 1..Len(processed_files) :
                 /\ processed_files[j].filename \in DOMAIN bucket
                 /\ bucket[processed_files[j].filename].rows # <<>>

\* the last source fails in its processed write after the sources before it
\* had their processed artifacts written
C24_Witness ==
  /\ pc = "raised"
  /\ HasEvent("processed_write_failed", SourceNames[Len(SourceNames)])
  /\ Len(processed_files) = Len(SourceNames) - 1
  /\ \A j \in 1..Len(processed_files) : processed_files[j].filename \in DOMAIN bucket
  /\ RunJobs = {}

\* ------------------------------------------------------------------ C25
\* the successful artifact writes of the run, in the order they happened
RunWrites ==
  SelectSeq(events, LAMBDA e : e.stage \in {"raw_write", "processed_write"})

\* C25 (as claimed): the run's list of written artifacts has one entry per
\* successful write, in write order, and each entry is the identifier the
\* store returned, so that reading it back finds the artifact.
C25_Claim ==
  /\ Len(RunUploads) = Len(RunWrites)
  /\ \A k \in 1..Len(RunUploads) :
       /\ RunUploads[k].filename.source_name = RunWrites[k].source
       /\ RunUploads[k] \in DOMAIN bucket

\* ------------------------------------------------------------------ C26
\* C26 (as claimed): the statistics of a run cover that run only: when a
\* call starts, total_valid_records, the list of written artifacts and the
\* recorded error are those of a new runner, and a returned summary never
\* has more valid records than raw records.
C26_Claim ==
  /\ pc = "validate_settings"
       => /\ pipeline_stats.total_valid_records = InitStats.total_valid_records
          /\ pipeline_stats.files_uploaded = InitStats.files_uploaded
          /\ pipeline_stats.error = InitStats.error
  /\ pc = "returned"
       => pipeline_stats.total_valid_records <= pipeline_stats.total_raw_records

=============================================================================
